---------------------------- MODULE Spec2Model ----------------------------
(***************************************************************************)
(* Sprite2Beads: the palette nearest-colour matcher (BeadColor,            *)
(* BeadPalette), the palette loader (load_color_palette) and the           *)
(* conversion run (main) of Sprite2Beads.py.                               *)
(*                                                                         *)
(* Numbers.  Python computes the distances in binary floating point.  The  *)
(* model computes the same expressions in exact rational arithmetic:       *)
(*   - a YUV coordinate is an integer count of fixed units (Y in 1/1000,   *)
(*     U and V in 1/1000000), which is exact for the three-decimal         *)
(*     coefficients of __rgb2yuv;                                          *)
(*   - an HSV coordinate is a fraction <<numerator, denominator>>;         *)
(*   - a distance is held as the radicand of its math.sqrt, a fraction     *)
(*     [num, den] of arbitrary-size naturals.  sqrt is strictly increasing *)
(*     on the non-negative numbers and sqrt(0) = 0, so comparing           *)
(*     radicands compares distances and a zero radicand is a zero          *)
(*     distance.                                                           *)
(* Arbitrary-size naturals are little-endian sequences of limbs in base    *)
(* Base, because the radicands exceed the 32-bit integers of TLC.  Float   *)
(* rounding is not modelled.                                               *)
(***************************************************************************)
EXTENDS Integers, Sequences, FiniteSets, TLC

VARIABLES
    palette,    \* BeadPalette.palette: the list of BeadColor objects
    result,     \* outcome of the last call on the palette object
    pc,         \* main: position in the run
    args,       \* main: parsed command line (palette, color)
    m_palette,  \* main: local `palette` (<<>> is None, <<p>> a BeadPalette)
    im_in,      \* main: pixels of the input image in scan order
    opened,     \* main: Image.open has been called
    pos,        \* main: number of pixels read by getpixel
    cells,      \* main: cells drawn on im_out
    saved,      \* main: <<>> or <<output file name parts>>
    exc         \* main: "" or the exception that ended the run

vars == <<palette, result, pc, args, m_palette, im_in, opened, pos, cells, saved, exc>>

-----------------------------------------------------------------------------
(* Arbitrary-size naturals *)

Base == 10000

Abs(x) == IF x < 0 THEN -x ELSE x

Min2(x, y) == IF x < y THEN x ELSE y

RECURSIVE FromInt(_)
FromInt(n) == IF n = 0 THEN <<>> ELSE <<n % Base>> \o FromInt(n \div Base)

RECURSIVE BAddC(_, _, _)
BAddC(a, b, c) ==
    IF a = <<>> /\ b = <<>>
    THEN (IF c = 0 THEN <<>> ELSE <<c>>)
    ELSE LET x == IF a = <<>> THEN 0 ELSE Head(a)
             y == IF b = <<>> THEN 0 ELSE Head(b)
             s == x + y + c
         IN  <<s % Base>> \o BAddC(IF a = <<>> THEN <<>> ELSE Tail(a),
                                   IF b = <<>> THEN <<>> ELSE Tail(b),
                                   s \div Base)

BAdd(a, b) == BAddC(a, b, 0)

RECURSIVE BMulLimb(_, _, _)
BMulLimb(a, k, c) ==
    IF a = <<>>
    THEN (IF c = 0 THEN <<>> ELSE <<c>>)
    ELSE LET p == Head(a) * k + c
         IN  <<p % Base>> \o BMulLimb(Tail(a), k, p \div Base)

RECURSIVE BMul(_, _)
BMul(a, b) ==
    IF a = <<>> \/ b = <<>>
    THEN <<>>
    ELSE LET low  == IF Head(b) = 0 THEN <<>> ELSE BMulLimb(a, Head(b), 0)
             rest == BMul(a, Tail(b))
         IN  BAdd(low, IF rest = <<>> THEN <<>> ELSE <<0>> \o rest)

BSq(n) == LET b == FromInt(Abs(n)) IN BMul(b, b)

RECURSIVE BLessAt(_, _, _)
BLessAt(a, b, i) ==
    IF i = 0 THEN FALSE
    ELSE IF a[i] # b[i] THEN a[i] < b[i]
    ELSE BLessAt(a, b, i - 1)

BLess(a, b) ==
    IF Len(a) # Len(b) THEN Len(a) < Len(b) ELSE BLessAt(a, b, Len(a))

\* A distance: the radicand num/den of math.sqrt, or float('inf').
Inf == [inf |-> TRUE, num |-> <<>>, den |-> <<1>>]

Dist(n, d) == [inf |-> FALSE, num |-> n, den |-> d]

\* distance < min_distance (line 84)
DistLess(d, m) ==
    IF d.inf THEN FALSE
    ELSE IF m.inf THEN TRUE
    ELSE IF d.den = m.den THEN BLess(d.num, m.num)
    ELSE BLess(BMul(d.num, m.den), BMul(m.num, d.den))

IsZero(d) == ~d.inf /\ d.num = <<>>

-----------------------------------------------------------------------------
(* Strings that the code inspects are sequences of one-character strings. *)

LowerLetters == <<"a","b","c","d","e","f","g","h","i","j","k","l","m",
                  "n","o","p","q","r","s","t","u","v","w","x","y","z">>

UpperLetters == <<"A","B","C","D","E","F","G","H","I","J","K","L","M",
                  "N","O","P","Q","R","S","T","U","V","W","X","Y","Z">>

UpperChar(c) ==
    IF \E i \in DOMAIN LowerLetters : LowerLetters[i] = c
    THEN UpperLetters[CHOOSE i \in DOMAIN LowerLetters : LowerLetters[i] = c]
    ELSE c

LowerChar(c) ==
    IF \E i \in DOMAIN UpperLetters : UpperLetters[i] = c
    THEN LowerLetters[CHOOSE i \in DOMAIN UpperLetters : UpperLetters[i] = c]
    ELSE c

\* str.upper()
Upper(s) == [i \in DOMAIN s |-> UpperChar(s[i])]

\* str.lower()
Lower(s) == [i \in DOMAIN s |-> LowerChar(s[i])]

-----------------------------------------------------------------------------
(* class BeadColor *)

\* None, for the yuv and hsv fields
None == <<>>

\* ImageColor.getrgb("black"), ImageColor.getrgb("white")
Black == <<0, 0, 0>>

White == <<255, 255, 255>>

\* BeadColor.__init__
BeadColor(name, rgb) == [name |-> name, rgb |-> rgb, yuv |-> None, hsv |-> None]

\* What a method call leaves: the object, the exception raised ("" if none)
\* and the value returned.
Ret(self, value) == [self |-> self, raised |-> "", value |-> value]

Raise(self, e) == [self |-> self, raised |-> e, value |-> Inf]

Max3(r, g, b) == IF r >= g /\ r >= b THEN r ELSE IF g >= b THEN g ELSE b

Min3(r, g, b) == IF r <= g /\ r <= b THEN r ELSE IF g <= b THEN g ELSE b

\* __rgb2yuv: <<y, u, v>> with y in units of 1/1000, u and v of 1/1000000
rgb2yuv(rgb) ==
    LET r == rgb[1]
        g == rgb[2]
        b == rgb[3]
        y == 299 * r + 587 * g + 114 * b
        u == 492 * (1000 * b - y)
        v == 877 * (1000 * r - y)
    IN  <<y, u, v>>

\* __rgb2hsv: colorsys.rgb_to_hsv(r/255, g/255, b/255) with h scaled by 360;
\* each coordinate a fraction <<numerator, denominator>>
rgb2hsv(rgb) ==
    LET r == rgb[1]
        g == rgb[2]
        b == rgb[3]
        maxc == Max3(r, g, b)
        minc == Min3(r, g, b)
        rangec == maxc - minc
        \* h of colorsys before "/6.0", in units of 1/rangec
        hx == IF r = maxc THEN g - b
              ELSE IF g = maxc THEN 2 * rangec + (b - r)
              ELSE 4 * rangec + (r - g)
    IN  IF minc = maxc
        THEN <<<<0, 1>>, <<0, 1>>, <<maxc, 255>>>>
        ELSE <<<<60 * (hx % (6 * rangec)), rangec>>, <<rangec, maxc>>, <<maxc, 255>>>>

\* __distance_rgb; the radicand is held over the denominator 512
distance_rgb(self, rgb) ==
    IF Len(self.rgb) # 3
    THEN Raise(self, "ValueError")
    ELSE LET r1 == self.rgb[1]
             g1 == self.rgb[2]
             b1 == self.rgb[3]
             r2 == rgb[1]
             g2 == rgb[2]
             b2 == rgb[3]
             \* rmean = r1 + r2 / 2, in units of 1/2
             rmean2 == 2 * r1 + r2
             dr == (r1 - r2) * (r1 - r2)
             dg == (g1 - g2) * (g1 - g2)
             db == (b1 - b2) * (b1 - b2)
         IN  Ret(self, Dist(FromInt((1024 + rmean2) * dr + 2048 * dg
                                     + (1024 + (510 - rmean2)) * db),
                            FromInt(512)))

\* __distance_yuv storing the query's coordinates in the cache on every call
distance_yuv_overwrites(self, rgb) ==
    IF Len(self.rgb) # 3
    THEN Raise(self, "ValueError")
    ELSE LET mine == rgb2yuv(self.rgb)
             q    == rgb2yuv(rgb)
         IN  Ret([self EXCEPT !.yuv = q],
                 Dist(BAdd(BSq(1000 * (mine[1] - q[1])),
                           BAdd(BSq(mine[2] - q[2]), BSq(mine[3] - q[3]))),
                      BSq(1000000)))

\* __distance_yuv
distance_yuv(self, rgb) ==
    IF self.yuv = None /\ Len(self.rgb) # 3
    THEN Raise(self, "ValueError")
    ELSE LET me == IF self.yuv = None
                   THEN [self EXCEPT !.yuv = rgb2yuv(self.rgb)]
                   ELSE self
             q  == rgb2yuv(rgb)
         IN  Ret(me, Dist(BAdd(BSq(1000 * (me.yuv[1] - q[1])),
                               BAdd(BSq(me.yuv[2] - q[2]), BSq(me.yuv[3] - q[3]))),
                          BSq(1000000)))

\* __distance_hsv taking the longer way round the hue circle (max for min)
distance_hsv_long_arc(self, rgb) ==
    IF self.hsv = None /\ Len(self.rgb) # 3
    THEN Raise(self, "ValueError")
    ELSE LET me == IF self.hsv = None
                   THEN [self EXCEPT !.hsv = rgb2hsv(self.rgb)]
                   ELSE self
             q  == rgb2hsv(rgb)
             hd == me.hsv[1][2] * q[1][2]
             ah == Abs(q[1][1] * me.hsv[1][2] - me.hsv[1][1] * q[1][2])
             dhn == IF ah > 360 * hd - ah THEN ah ELSE 360 * hd - ah
             sd == me.hsv[2][2] * q[2][2]
             dsn == Abs(q[2][1] * me.hsv[2][2] - me.hsv[2][1] * q[2][2])
             vd == me.hsv[3][2] * q[3][2]
             dvn == Abs(q[3][1] * me.hsv[3][2] - me.hsv[3][1] * q[3][2])
             Bhd == FromInt(180 * hd)
             Bsd == FromInt(sd)
             Bvd == FromInt(vd)
             t1 == BMul(FromInt(dhn), BMul(Bsd, Bvd))
             t2 == BMul(FromInt(dsn), BMul(Bhd, Bvd))
             t3 == BMul(FromInt(dvn), BMul(Bhd, Bsd))
             dd == BMul(Bhd, BMul(Bsd, Bvd))
         IN  Ret(me, Dist(BAdd(BMul(t1, t1), BAdd(BMul(t2, t2), BMul(t3, t3))),
                          BMul(dd, dd)))

\* __distance_hsv
distance_hsv(self, rgb) ==
    IF self.hsv = None /\ Len(self.rgb) # 3
    THEN Raise(self, "ValueError")
    ELSE LET me == IF self.hsv = None
                   THEN [self EXCEPT !.hsv = rgb2hsv(self.rgb)]
                   ELSE self
             q  == rgb2hsv(rgb)
             h1 == me.hsv[1]
             s1 == me.hsv[2]
             v1 == me.hsv[3]
             h2 == q[1]
             s2 == q[2]
             v2 == q[3]
             \* abs(h2-h1) = ah / hd
             hd == h1[2] * h2[2]
             ah == Abs(h2[1] * h1[2] - h1[1] * h2[2])
             \* dh = dhn / (180 * hd)
             dhn == Min2(ah, 360 * hd - ah)
             \* ds = dsn / sd
             sd == s1[2] * s2[2]
             dsn == Abs(s2[1] * s1[2] - s1[1] * s2[2])
             \* dv = dvn / vd
             vd == v1[2] * v2[2]
             dvn == Abs(v2[1] * v1[2] - v1[1] * v2[2])
             Bhd == FromInt(180 * hd)
             Bsd == FromInt(sd)
             Bvd == FromInt(vd)
             t1 == BMul(FromInt(dhn), BMul(Bsd, Bvd))
             t2 == BMul(FromInt(dsn), BMul(Bhd, Bvd))
             t3 == BMul(FromInt(dvn), BMul(Bhd, Bsd))
             dd == BMul(Bhd, BMul(Bsd, Bvd))
         IN  Ret(me, Dist(BAdd(BMul(t1, t1), BAdd(BMul(t2, t2), BMul(t3, t3))),
                          BMul(dd, dd)))

\* get_distance
get_distance(self, color_space, rgb) ==
    LET cs == Upper(color_space)
    IN  IF cs = <<"R", "G", "B">> THEN distance_rgb(self, rgb)
        ELSE IF cs = <<"Y", "U", "V">> THEN distance_yuv(self, rgb)
        ELSE IF cs = <<"H", "S", "V">> THEN distance_hsv(self, rgb)
        ELSE Raise(self, "ValueError")

RECURSIVE Sum(_)
Sum(s) == IF s = <<>> THEN 0 ELSE Head(s) + Sum(Tail(s))

\* get_textcolor with >= for >
get_textcolor_inclusive(self) == IF Sum(self.rgb) >= 128 * 3 THEN Black ELSE White

\* get_textcolor
get_textcolor(self) == IF Sum(self.rgb) > 128 * 3 THEN Black ELSE White

-----------------------------------------------------------------------------
(* class BeadPalette *)

\* the loop of get_closest without "min_distance = distance"
RECURSIVE ScanNoMinUpdate(_, _, _, _, _, _)
ScanNoMinUpdate(p, i, color_space, rgb, min_distance, best_color) ==
    IF i > Len(p)
    THEN [palette |-> p, raised |-> "", best |-> best_color]
    ELSE LET r  == get_distance(p[i], color_space, rgb)
             p2 == [p EXCEPT ![i] = r.self]
         IN  IF r.raised # ""
             THEN [palette |-> p2, raised |-> r.raised, best |-> 0]
             ELSE IF DistLess(r.value, min_distance)
                  THEN ScanNoMinUpdate(p2, i + 1, color_space, rgb, min_distance, i)
                  ELSE ScanNoMinUpdate(p2, i + 1, color_space, rgb, min_distance, best_color)

\* the loop of get_closest with "distance <= min_distance"
RECURSIVE ScanLastTieWins(_, _, _, _, _, _)
ScanLastTieWins(p, i, color_space, rgb, min_distance, best_color) ==
    IF i > Len(p)
    THEN [palette |-> p, raised |-> "", best |-> best_color]
    ELSE LET r  == get_distance(p[i], color_space, rgb)
             p2 == [p EXCEPT ![i] = r.self]
         IN  IF r.raised # ""
             THEN [palette |-> p2, raised |-> r.raised, best |-> 0]
             ELSE IF ~DistLess(min_distance, r.value)
                  THEN ScanLastTieWins(p2, i + 1, color_space, rgb, r.value, i)
                  ELSE ScanLastTieWins(p2, i + 1, color_space, rgb, min_distance, best_color)

\* the loop of get_closest from entry i on; best is an index into the
\* palette, 0 for None
RECURSIVE Scan(_, _, _, _, _, _)
Scan(p, i, color_space, rgb, min_distance, best_color) ==
    IF i > Len(p)
    THEN [palette |-> p, raised |-> "", best |-> best_color]
    ELSE LET r  == get_distance(p[i], color_space, rgb)
             p2 == [p EXCEPT ![i] = r.self]
         IN  IF r.raised # ""
             THEN [palette |-> p2, raised |-> r.raised, best |-> 0]
             ELSE IF DistLess(r.value, min_distance)
                  THEN Scan(p2, i + 1, color_space, rgb, r.value, i)
                  ELSE Scan(p2, i + 1, color_space, rgb, min_distance, best_color)

\* get_closest
get_closest(p, color_space, rgb) == Scan(p, 1, color_space, rgb, Inf, 0)

-----------------------------------------------------------------------------
(* Inputs *)

MaxPalette == 2

\* (name, rgb) pairs handed to BeadColor
Beads == {<<"red", <<255, 0, 0>>>>, <<"blue", <<0, 0, 255>>>>,
          <<"gray", <<128, 128, 128>>>>}

Queries == {<<255, 0, 0>>, <<0, 0, 255>>, <<128, 128, 128>>, <<0, 255, 0>>,
            <<250, 5, 5>>}

Tags == {<<"R", "G", "B">>, <<"y", "u", "v">>, <<"H", "s", "v">>, <<"X", "Y", "Z">>}

\* the tags get_distance accepts
ValidTag(t) == Upper(t) \in {<<"R", "G", "B">>, <<"Y", "U", "V">>, <<"H", "S", "V">>}

-----------------------------------------------------------------------------
(* Calls on one BeadPalette object and on the BeadColor objects it holds.  *)
(* The program is single-threaded: a call runs to its end, `result` holds  *)
(* what it returned or raised, and the caller takes it before the next     *)
(* call.                                                                   *)

NoCall == [op |-> "", self |-> 0, color_space |-> <<>>, rgb |-> <<>>,
           cached |-> FALSE, raised |-> "", value |-> Inf, best |-> 0,
           text |-> <<>>]

MainIdle ==
    /\ pc = "idle"
    /\ args = [palette |-> <<>>, color |-> <<>>]
    /\ m_palette = <<>>
    /\ im_in = <<>>
    /\ opened = FALSE
    /\ pos = 0
    /\ cells = <<>>
    /\ saved = <<>>
    /\ exc = ""

mainVars == <<pc, args, m_palette, im_in, opened, pos, cells, saved, exc>>

Init ==
    /\ palette = <<>>
    /\ result = NoCall
    /\ MainIdle

\* add() inserting at the front of the list
AddInFront(name, rgb) ==
    /\ result = NoCall
    /\ Len(palette) < MaxPalette
    /\ palette' = <<BeadColor(name, rgb)>> \o palette
    /\ result' = [NoCall EXCEPT !.op = "add", !.self = Len(palette) + 1]
    /\ UNCHANGED mainVars

\* palette.add(BeadColor(name, rgb))
Add(name, rgb) ==
    /\ result = NoCall
    /\ Len(palette) < MaxPalette
    /\ palette' = Append(palette, BeadColor(name, rgb))
    /\ result' = [NoCall EXCEPT !.op = "add", !.self = Len(palette) + 1]
    /\ UNCHANGED mainVars

\* palette.palette[i].get_distance(color_space, rgb)
GetDistance(i, color_space, rgb) ==
    /\ result = NoCall
    /\ \E r \in {get_distance(palette[i], color_space, rgb)} :
          /\ palette' = [palette EXCEPT ![i] = r.self]
          /\ result' = [NoCall EXCEPT
                 !.op = "get_distance", !.self = i,
                 !.color_space = color_space, !.rgb = rgb,
                 !.cached = \/ /\ Upper(color_space) = <<"Y", "U", "V">>
                               /\ palette[i].yuv # None
                            \/ /\ Upper(color_space) = <<"H", "S", "V">>
                               /\ palette[i].hsv # None,
                 !.raised = r.raised, !.value = r.value]
    /\ UNCHANGED mainVars

\* palette.get_closest(color_space, rgb)
GetClosest(color_space, rgb) ==
    /\ result = NoCall
    /\ \E r \in {get_closest(palette, color_space, rgb)} :
          /\ palette' = r.palette
          /\ result' = [NoCall EXCEPT
                 !.op = "get_closest",
                 !.color_space = color_space, !.rgb = rgb,
                 !.raised = r.raised, !.best = r.best]
    /\ UNCHANGED mainVars

\* palette.palette[i].get_textcolor()
GetTextcolor(i) ==
    /\ result = NoCall
    /\ result' = [NoCall EXCEPT !.op = "get_textcolor", !.self = i,
                                !.text = get_textcolor(palette[i])]
    /\ UNCHANGED <<palette, mainVars>>

\* the caller takes what the call returned or raised
Return ==
    /\ result # NoCall
    /\ result' = NoCall
    /\ UNCHANGED <<palette, mainVars>>

Next ==
    \/ \E b \in Beads : Add(b[1], b[2])
    \/ \E i \in DOMAIN palette, t \in Tags, rgb \in Queries : GetDistance(i, t, rgb)
    \/ \E t \in Tags, rgb \in Queries : GetClosest(t, rgb)
    \/ \E i \in DOMAIN palette : GetTextcolor(i)
    \/ Return

Spec == Init /\ [][Next]_vars

-----------------------------------------------------------------------------
(* load_color_palette.  config['Palette'] is the sequence of <<key, value>> *)
(* pairs of the section, in file order; a value is the text configparser    *)
(* hands over.                                                              *)

Digits == <<"0", "1", "2", "3", "4", "5", "6", "7", "8", "9">>

IsDigit(c) == \E i \in DOMAIN Digits : Digits[i] = c

DigitVal(c) == (CHOOSE i \in DOMAIN Digits : Digits[i] = c) - 1

\* value.split('#')[0]
RECURSIVE BeforeHash(_)
BeforeHash(s) ==
    IF s = <<>> \/ Head(s) = "#" THEN <<>> ELSE <<Head(s)>> \o BeforeHash(Tail(s))

\* str.rstrip()
RECURSIVE RStrip(_)
RStrip(s) ==
    IF s # <<>> /\ s[Len(s)] = " " THEN RStrip(SubSeq(s, 1, Len(s) - 1)) ELSE s

\* str.lstrip(), as int() applies it
RECURSIVE LStrip(_)
LStrip(s) == IF s # <<>> /\ Head(s) = " " THEN LStrip(Tail(s)) ELSE s

\* str.split(','): the pieces between the commas, at least one
RECURSIVE SplitComma(_)
SplitComma(s) ==
    IF s = <<>> THEN << <<>> >>
    ELSE LET rest == SplitComma(Tail(s))
         IN  IF Head(s) = ","
             THEN << <<>> >> \o rest
             ELSE << <<Head(s)>> \o Head(rest) >> \o Tail(rest)

RECURSIVE DigitsValue(_, _)
DigitsValue(s, acc) ==
    IF s = <<>> THEN acc ELSE DigitsValue(Tail(s), 10 * acc + DigitVal(Head(s)))

\* int(x) of a string: surrounding blanks dropped, an optional sign, then
\* one or more decimal digits; anything else raises ValueError
ParseInt(x) ==
    LET t      == RStrip(LStrip(x))
        signed == t # <<>> /\ Head(t) \in {"+", "-"}
        d      == IF signed THEN Tail(t) ELSE t
    IN  IF d # <<>> /\ \A i \in DOMAIN d : IsDigit(d[i])
        THEN [raised |-> "",
              value |-> IF signed /\ Head(t) = "-"
                        THEN -DigitsValue(d, 0) ELSE DigitsValue(d, 0)]
        ELSE [raised |-> "ValueError", value |-> 0]

\* tuple(int(x) for x in value.split('#')[0].rstrip().split(','))
ParseRgb(value) ==
    LET parts == SplitComma(RStrip(BeforeHash(value)))
        ints  == [i \in DOMAIN parts |-> ParseInt(parts[i])]
    IN  IF \E i \in DOMAIN ints : ints[i].raised # ""
        THEN [raised |-> "ValueError", value |-> <<>>]
        ELSE [raised |-> "", value |-> [i \in DOMAIN ints |-> ints[i].value]]

\* the loop of load_color_palette from entry i on
RECURSIVE LoadFrom(_, _, _)
LoadFrom(section, i, p) ==
    IF i > Len(section)
    THEN [raised |-> "", palette |-> p]
    ELSE LET key == section[i][1]
             rgb == ParseRgb(section[i][2])
         IN  IF rgb.raised # ""
             THEN [raised |-> rgb.raised, palette |-> p]
             ELSE LoadFrom(section, i + 1, Append(p, BeadColor(key, rgb.value)))

load_color_palette(section) == LoadFrom(section, 1, <<>>)

-----------------------------------------------------------------------------
(* Inputs of a run of main *)

MaxPixels == 2

\* red = 255,0,0; blue = 0,0,255  # note
CfgGood ==
    <<<<"red", <<"2", "5", "5", ",", "0", ",", "0">>>>,
      <<"blue", <<"0", ",", "0", ",", "2", "5", "5", " ", " ", "#", " ", "n", "o", "t", "e">>>>>>

\* gray = 128, 128 ,128; red =  255,0,0 
CfgSpaced ==
    <<<<"gray", <<"1", "2", "8", ",", " ", "1", "2", "8", " ", ",", "1", "2", "8">>>>,
      <<"red", <<" ", "2", "5", "5", ",", "0", ",", "0", " ">>>>>>

\* (no entries)
CfgEmpty ==
    <<>>

\* red = 255,0,0; bad = 1,2
CfgShort ==
    <<<<"red", <<"2", "5", "5", ",", "0", ",", "0">>>>,
      <<"bad", <<"1", ",", "2">>>>>>

\* bad = 1,2,3,4; blue = 0,0,255
CfgLong ==
    <<<<"bad", <<"1", ",", "2", ",", "3", ",", "4">>>>,
      <<"blue", <<"0", ",", "0", ",", "2", "5", "5">>>>>>

\* red = 255,0,0; bad = x,0,0
CfgNonInt ==
    <<<<"red", <<"2", "5", "5", ",", "0", ",", "0">>>>,
      <<"bad", <<"x", ",", "0", ",", "0">>>>>>

\* bad = # none
CfgBlank ==
    <<<<"bad", <<"#", " ", "n", "o", "n", "e">>>>>>

\* args.palette: <<>> when -p is not given, else <<the file's section>>
PaletteArgs == {<<>>, <<CfgGood>>, <<CfgSpaced>>, <<CfgEmpty>>, <<CfgShort>>,
                <<CfgLong>>, <<CfgNonInt>>, <<CfgBlank>>}

\* args.color
Selectors == {<<"r", "g", "b">>, <<"H", "S", "V">>, <<"Y", "u", "v">>,
              <<"x", "y", "z">>}

\* RGBA pixels of the input image
Pixels == {<<255, 255, 255, 255>>, <<0, 0, 0, 255>>, <<128, 128, 128, 255>>,
           <<129, 128, 128, 255>>, <<250, 5, 5, 128>>, <<9, 9, 9, 0>>}

Images == UNION {[1..n -> Pixels] : n \in 0..MaxPixels}

-----------------------------------------------------------------------------
(* main.  A run is cut into the steps of its listing.  Failures of the    *)
(* file system (a missing image, palette file, [Palette] section or font)  *)
(* are not modelled: every file is present and readable.                   *)

MainInit ==
    /\ palette = <<>>
    /\ result = NoCall
    /\ pc = "parse"
    /\ args = [palette |-> <<>>, color |-> <<>>]
    /\ m_palette = <<>>
    /\ im_in = <<>>
    /\ opened = FALSE
    /\ pos = 0
    /\ cells = <<>>
    /\ saved = <<>>
    /\ exc = ""

\* lines 101-105: any string is accepted for --color
MainParseArgs(p, color) ==
    /\ pc = "parse"
    /\ args' = [palette |-> p, color |-> color]
    /\ pc' = "load"
    /\ UNCHANGED <<palette, result, m_palette, im_in, opened, pos, cells, saved, exc>>

\* lines 107-110
MainLoadPalette ==
    /\ pc = "load"
    /\ IF args.palette = <<>>
       THEN /\ m_palette' = <<>>
            /\ pc' = "open"
            /\ exc' = exc
       ELSE \E r \in {load_color_palette(args.palette[1])} :
               IF r.raised # ""
               THEN /\ m_palette' = <<>>
                    /\ pc' = "exit"
                    /\ exc' = r.raised
               ELSE /\ m_palette' = <<r.palette>>
                    /\ pc' = "open"
                    /\ exc' = exc
    /\ UNCHANGED <<palette, result, args, im_in, opened, pos, cells, saved>>

\* lines 112-120: the input image is opened, the output image created
MainOpenImage(image) ==
    /\ pc = "open"
    /\ im_in' = image
    /\ opened' = TRUE
    /\ pc' = "loop"
    /\ UNCHANGED <<palette, result, args, m_palette, pos, cells, saved, exc>>

\* what lines 137-138 draw for out_color
Cell(out_color) ==
    [fill |-> out_color.rgb, name |-> out_color.name, text |-> get_textcolor(out_color)]

\* lines 121-138: one pixel of the loop
MainPixel ==
    /\ pc = "loop"
    /\ pos < Len(im_in)
    /\ pos' = pos + 1
    /\ LET in_color == im_in[pos + 1]
       IN  IF in_color[4] = 0
           THEN UNCHANGED <<m_palette, cells, pc, exc>>
           ELSE IF m_palette # <<>>
           THEN \E r \in {get_closest(m_palette[1], args.color, SubSeq(in_color, 1, 3))} :
                   /\ m_palette' = <<r.palette>>
                   /\ IF r.raised # ""
                      THEN /\ exc' = r.raised
                           /\ pc' = "exit"
                           /\ cells' = cells
                      ELSE IF r.best = 0
                      THEN \* out_color is None: out_color.rgb
                           /\ exc' = "AttributeError"
                           /\ pc' = "exit"
                           /\ cells' = cells
                      ELSE /\ cells' = Append(cells, Cell(r.palette[r.best]))
                           /\ UNCHANGED <<pc, exc>>
           ELSE /\ cells' = Append(cells, Cell(BeadColor("", SubSeq(in_color, 1, 3))))
                /\ UNCHANGED <<m_palette, pc, exc>>
    /\ UNCHANGED <<palette, result, args, im_in, opened, saved>>

\* lines 140-147
MainSave ==
    /\ pc = "loop"
    /\ pos = Len(im_in)
    /\ saved' = <<[suffix |-> IF m_palette = <<>> THEN "big" ELSE "bead",
                   color |-> Lower(args.color)]>>
    /\ pc' = "done"
    /\ UNCHANGED <<palette, result, args, m_palette, im_in, opened, pos, cells, exc>>

MainNext ==
    \/ \E p \in PaletteArgs, color \in Selectors : MainParseArgs(p, color)
    \/ MainLoadPalette
    \/ \E image \in Images : MainOpenImage(image)
    \/ MainPixel
    \/ MainSave

MainSpec == MainInit /\ [][MainNext]_vars

-----------------------------------------------------------------------------
(* Properties of the matcher, under Spec *)

RGB == <<"R", "G", "B">>

YUV == <<"Y", "U", "V">>

HSV == <<"H", "S", "V">>

\* the distance of palette entry j to the query of the last call
EntryDist(j) == get_distance(palette[j], result.color_space, result.rgb).value

\* a get_closest call with a valid tag on a non-empty palette has returned
ClosestReturned ==
    /\ result.op = "get_closest"
    /\ ValidTag(result.color_space)
    /\ palette # <<>>

Tie(i, j) == ~DistLess(EntryDist(i), EntryDist(j)) /\ ~DistLess(EntryDist(j), EntryDist(i))

\* C1: on a non-empty palette, with a valid tag, get_closest returns an entry
\* of the palette, and no entry of the palette is nearer to the query under
\* that metric.
NearestIsMinimal ==
    ClosestReturned =>
        /\ result.raised = ""
        /\ result.best \in DOMAIN palette
        /\ \A j \in DOMAIN palette : ~DistLess(EntryDist(j), EntryDist(result.best))

\* C1 witness: the entry returned is not the last one and is strictly nearer
\* than another entry.
NearestIsMinimalWitness ==
    /\ ClosestReturned
    /\ result.raised = ""
    /\ result.best \in DOMAIN palette
    /\ result.best < Len(palette)
    /\ \E j \in DOMAIN palette : DistLess(EntryDist(result.best), EntryDist(j))

\* C2: every entry inserted before the one get_closest returns is strictly
\* farther from the query: among entries at the minimum distance the first
\* inserted is returned.
EarliestWinsTies ==
    ClosestReturned =>
        /\ result.best \in DOMAIN palette
        /\ \A j \in DOMAIN palette :
              j < result.best => DistLess(EntryDist(result.best), EntryDist(j))

\* C2 witness: a later entry of another colour is at exactly the distance of
\* the entry returned.
EarliestWinsTiesWitness ==
    /\ ClosestReturned
    /\ result.best \in DOMAIN palette
    /\ \E j \in DOMAIN palette :
          /\ j > result.best
          /\ palette[j].rgb # palette[result.best].rgb
          /\ Tie(j, result.best)

\* C3 (as claimed): get_closest on an empty palette fails with an error.
EmptyPaletteFails ==
    (result.op = "get_closest" /\ palette = <<>>) => result.raised # ""

\* C4 (as claimed): get_distance and get_closest fail with ValueError on every
\* tag that is none of RGB, YUV, HSV in any letter case, whatever the palette,
\* and never fail on a tag that is one of them.
UnknownTagFails ==
    result.op \in {"get_distance", "get_closest"} =>
        IF ValidTag(result.color_space)
        THEN result.raised = ""
        ELSE result.raised = "ValueError"

\* C7: the distance from an entry to a query equal to its own rgb is exactly
\* zero under every metric, whether or not the entry's cache was set before
\* the call.
SelfDistanceZero ==
    ( /\ result.op = "get_distance"
      /\ ValidTag(result.color_space)
      /\ result.rgb = palette[result.self].rgb )
    => (result.raised = "" /\ IsZero(result.value))

\* C7 witness: a self-distance under HSV answered from a cache that had been
\* set by an earlier call.
SelfDistanceZeroWitness ==
    /\ result.op = "get_distance"
    /\ Upper(result.color_space) = HSV
    /\ result.cached
    /\ result.rgb = palette[result.self].rgb
    /\ IsZero(result.value)

\* the call that has just returned was made with this tag
CalledWith(tag) ==
    /\ result'.op \in {"get_distance", "get_closest"}
    /\ Upper(result'.color_space) = tag

\* C9: a cache field that is set never changes; the yuv field is set only by
\* a YUV-tagged call and the hsv field only by an HSV-tagged call, and a
\* get_distance call with that tag leaves the field set; a new entry starts
\* with both fields unset.
CachesWriteOnce ==
    [][ /\ \A i \in DOMAIN palette :
             /\ i \in DOMAIN palette'
             /\ palette[i].yuv # None => palette'[i].yuv = palette[i].yuv
             /\ palette[i].hsv # None => palette'[i].hsv = palette[i].hsv
             /\ palette'[i].yuv # palette[i].yuv => CalledWith(YUV)
             /\ palette'[i].hsv # palette[i].hsv => CalledWith(HSV)
             /\ (result'.op = "get_distance" /\ result'.self = i /\ CalledWith(YUV))
                    => palette'[i].yuv = rgb2yuv(palette[i].rgb)
             /\ (result'.op = "get_distance" /\ result'.self = i /\ CalledWith(HSV))
                    => palette'[i].hsv = rgb2hsv(palette[i].rgb)
        /\ \A i \in DOMAIN palette' \ DOMAIN palette :
             palette'[i].yuv = None /\ palette'[i].hsv = None
      ]_vars

\* C9 witness: a YUV-tagged get_distance answered from the cache, with a query
\* other than the entry's own colour, on an entry whose hsv field is unset.
CachesWriteOnceWitness ==
    /\ result.op = "get_distance"
    /\ Upper(result.color_space) = YUV
    /\ result.cached
    /\ result.rgb # palette[result.self].rgb
    /\ palette[result.self].yuv = rgb2yuv(palette[result.self].rgb)
    /\ palette[result.self].hsv = None

\* C10: get_distance, get_closest and get_textcolor, failing or not, keep the
\* number and order of the entries and every entry's name and rgb; add() is
\* the only call that changes the sequence, and it appends one entry and
\* leaves the others as they were.
PaletteFrame ==
    [][ IF result'.op = "add"
        THEN /\ Len(palette') = Len(palette) + 1
             /\ \A i \in DOMAIN palette : palette'[i] = palette[i]
        ELSE /\ Len(palette') = Len(palette)
             /\ \A i \in DOMAIN palette :
                   /\ palette'[i].name = palette[i].name
                   /\ palette'[i].rgb = palette[i].rgb
      ]_vars

\* C10 witness: a get_closest call with an unknown tag has failed on a palette
\* of two different entries, the first with both caches set.
PaletteFrameWitness ==
    /\ result.op = "get_closest"
    /\ result.raised = "ValueError"
    /\ Len(palette) >= 2
    /\ palette[1].rgb # palette[2].rgb
    /\ palette[1].yuv # None
    /\ palette[1].hsv # None

-----------------------------------------------------------------------------
(* Properties of a run of main, under MainSpec *)

\* C5 (as claimed): with a --color value that is none of rgb, yuv, hsv the
\* input image is never opened, no pixel is read or drawn and nothing is saved.
InvalidSelectorFailsFirst ==
    (pc # "parse" /\ ~ValidTag(args.color)) =>
        /\ ~opened
        /\ pos = 0
        /\ cells = <<>>
        /\ saved = <<>>

\* C6: the label colour of every drawn cell is Black exactly when the sum of
\* the cell colour's components exceeds 384, and White otherwise.
TextColorThreshold ==
    \A k \in DOMAIN cells :
        LET c == cells[k].fill
        IN  /\ (c[1] + c[2] + c[3] > 384) => cells[k].text = <<0, 0, 0>>
            /\ (c[1] + c[2] + c[3] <= 384) => cells[k].text = <<255, 255, 255>>

\* C6 witness: cells of colour (128,128,128), labelled White, and of colour
\* (255,255,255), labelled Black, have been drawn.
TextColorThresholdWitness ==
    /\ \E k \in DOMAIN cells :
          cells[k].fill = <<128, 128, 128>> /\ cells[k].text = <<255, 255, 255>>
    /\ \E k \in DOMAIN cells :
          cells[k].fill = <<255, 255, 255>> /\ cells[k].text = <<0, 0, 0>>

\* C8 (as claimed): once the palette file is loaded, every entry of the
\* palette has an rgb of exactly three components.
MalformedEntryRejected ==
    m_palette # <<>> =>
        \A i \in DOMAIN m_palette[1] : Len(m_palette[1][i].rgb) = 3

=============================================================================
